---- MODULE Spec2Model ----
(***************************************************************************)
(* A model of the polymarket-bot evaluation pipeline:                      *)
(*   - utils/tavily_predictor.py  WebPredictor (cache, search, scoring)    *)
(*   - test_prediction.py         the quoted-price variant of the scoring  *)
(*   - paper_trader_v2.py         PaperTrader (temporal filter, gate,      *)
(*                                ledger), the scan cycle                  *)
(*   - paper_trader.py            the first PaperTrader, run by            *)
(*                                scheduler.py                             *)
(*   - main.py                    PolymarketBot (risk gate, execution)     *)
(*                                                                         *)
(* Numbers.  Probabilities, confidences, prices and sentiments are kept in *)
(* hundredths (0.65 is 65), trade sizes in cents; a quotient that is not   *)
(* yet rounded is a pair <<numerator, denominator>>.  Python's round(x, 2) *)
(* is RoundDiv, with the outcome of an exact decimal tie taken from what   *)
(* the binary floating-point computation yields (see ConfTieDown).         *)
(*                                                                         *)
(* Text.  A string is a sequence of tokens (words); "w in text" for a      *)
(* keyword w is decided by KeywordsIn, the table of the keywords each      *)
(* token contains as a substring.                                          *)
(*                                                                         *)
(* Time.  The clock counts half days (12 hours) from 2025-12-31T00:00Z.    *)
(***************************************************************************)
EXTENDS Integers, Sequences, FiniteSets, TLC

VARIABLES
    \* WebPredictor
    cache,          \* self.cache: cache key -> prediction
    searchCount,    \* <<question, category>> -> number of _search runs made for it
    firstResult,    \* <<question, category>> -> what the first predict call returned
    lastCall,       \* the last predict call: its arguments, result and path
    \* the scoring functions, applied to drawn inputs
    eng,
    \* PaperTrader
    trader,         \* "v1" (paper_trader.py) or "v2" (paper_trader_v2.py)
    pc,             \* position of scan_and_predict
    remaining,      \* number of markets of the fetched listing not analysed yet
    predictions,    \* the cycle's accepted predictions
    ledger,         \* rows of paper_predictions, committed
    pending,        \* rows inserted on self.db and not committed
    cycleOf,        \* which scan cycle each row came from, and the cycles' sizes
    scan,           \* the current or last scan_and_predict call: how it went
    now,            \* datetime.now(timezone.utc), in half days
    current_year,   \* self.current_year
    days_ahead,     \* the cycle's days_ahead argument
    last,           \* the last per-market analysis: market, result, predictor use
    \* PolymarketBot
    active_positions,   \* self.active_positions: market id -> decision
    auto_execute,       \* self.config["auto_execute"]
    botpc,              \* position of the bot's cycle
    decision,           \* the result of the last evaluate_position
    lastEval,           \* the last evaluate_position call: what it met, what it did
    lastExec,           \* the last execute_trade call: how place_order ended, what it did
    orders,             \* market ids handed to place_order
    botRun,             \* PolymarketBot.run: what initialize returned, where run went
    \* PolymarketClient
    client,             \* self.client: "None" or "ClobClient"
    connected,          \* a connect call has returned True
    exchange,           \* number of calls made on self.client, the exchange client
    lastApi             \* the last call of a PolymarketClient method

predVars  == <<cache, searchCount, firstResult, lastCall>>
paperVars == <<trader, pc, remaining, predictions, ledger, pending, cycleOf, scan,
               now, current_year, days_ahead, last>>
botVars   == <<active_positions, auto_execute, botpc, decision, lastEval, lastExec,
               orders>>
apiVars   == <<botRun, client, connected, exchange, lastApi>>
vars      == <<cache, searchCount, firstResult, lastCall, eng,
               trader, pc, remaining, predictions, ledger, pending, cycleOf, scan,
               now, current_year, days_ahead, last,
               active_positions, auto_execute, botpc, decision, lastEval, lastExec,
               orders, botRun, client, connected, exchange, lastApi>>

----------------------------------------------------------------------------
(* Arithmetic *)

Abs(x) == IF x < 0 THEN -x ELSE x
Min(a, b) == IF a <= b THEN a ELSE b
Max(a, b) == IF a >= b THEN a ELSE b

\* floor(n / d) for d > 0 and any integer n
FloorDiv(n, d) == IF n >= 0 THEN n \div d ELSE -((-n + d - 1) \div d)

\* n/d is exactly halfway between two integers
IsTie(n, d) == 2 * (n - d * FloorDiv(n, d)) = d

\* round(n / d) for d > 0: the nearest integer; an exact tie goes down when
\* tieDown, up otherwise
RoundDivTie(n, d, tieDown) ==
    LET f == FloorDiv(n, d)
        r == n - d * f
    IN  IF 2 * r < d THEN f
        ELSE IF 2 * r > d THEN f + 1
        ELSE IF tieDown THEN f ELSE f + 1

\* round(n / d) with ties to the even neighbour: what round(x, 2) gives when
\* the float x is the exact tie (0.625, 0.375)
RoundDiv(n, d) == RoundDivTie(n, d, FloorDiv(n, d) % 2 = 0)

----------------------------------------------------------------------------
(* Text: strings as sequences of tokens *)

\* str.lower() on one token
Lower(tok) ==
    CASE tok = "Rally"   -> "rally"
      [] tok = "BEARISH" -> "bearish"
      [] OTHER           -> tok

\* The keywords (of the sentiment lists and of _detect_category) that a
\* lowercased token contains as a substring: "bullish" contains "bull", "know"
\* contains "no", "unlikely" contains "likely".
KeywordsIn(tok) ==
    CASE tok = "bullish"  -> {"bull", "bullish"}
      [] tok = "rally"    -> {"rally"}
      [] tok = "bearish"  -> {"bear", "bearish"}
      [] tok = "crash"    -> {"crash"}
      [] tok = "know"     -> {"no"}
      [] tok = "unlikely" -> {"likely", "unlikely"}
      [] tok = "btc"      -> {"btc"}
      [] tok = "trump"    -> {"trump"}
      [] tok = "nba"      -> {"nba"}
      [] OTHER            -> {}

\* w in text.lower()
InText(w, text) == \E i \in 1..Len(text) : w \in KeywordsIn(Lower(text[i]))

\* sum(1 for w in words if w in text): one per list entry, so an entry listed
\* twice counts twice
CountIn(words, text) == Cardinality({i \in 1..Len(words) : InText(words[i], text)})

\* len(re.findall(r'- \*\*.+?\*\*', text)): the source lines of the text
SourceToken == "- **src**"
TwoSources  == "- **one** - **two**"
SourcesIn(tok) ==
    CASE tok = SourceToken -> 1
      [] tok = TwoSources  -> 2
      [] OTHER             -> 0
RECURSIVE CountSources(_)
CountSources(text) ==
    IF text = <<>> THEN 0 ELSE SourcesIn(Head(text)) + CountSources(Tail(text))

----------------------------------------------------------------------------
(* WebPredictor scoring: utils/tavily_predictor.py *)

bullish == <<"bull", "bullish", "rally", "surge", "moon", "strong", "higher",
             "growth", "confident", "expected", "likely", "yes", "reach",
             "target", "predict", "forecast">>
bearish == <<"bear", "bearish", "crash", "dump", "fall", "lower", "weak",
             "unlikely", "doubt", "correction", "no", "bearish">>

\* Faulty variant of AnalyzeSentiment: each keyword counted once, however
\* often the list names it
AnalyzeSentimentDistinct(text) ==
    LET pos == Cardinality({w \in {bullish[i] : i \in 1..Len(bullish)} : InText(w, text)})
        neg == Cardinality({w \in {bearish[i] : i \in 1..Len(bearish)} : InText(w, text)})
    IN  <<pos - neg, Max(pos + neg, 1)>>

\* _analyze_sentiment: (pos - neg) / max(total, 1), as <<numerator, denominator>>
AnalyzeSentiment(text) ==
    LET pos == CountIn(bullish, text)
        neg == CountIn(bearish, text)
    IN  <<pos - neg, Max(pos + neg, 1)>>

\* round(min(0.35 + n*0.08 + |s|*0.25, 0.85), 2) lands on an exact decimal
\* tie only for |s| = 1/2 (x.xx5); the float sum is then below the tie for
\* 0, 1, 3 and 4 sources (0.47, 0.55, 0.71, 0.79) and at it for 2 (0.64).
ConfTieDown(num_sources) == num_sources # 2

NoSearchResults ==
    [prob_yes |-> 50, confidence |-> 0, sentiment |-> 0,
     bucket |-> "No search results", sources |-> 0]

\* Faulty variant of ParseResults: the confidence starts from 0.45
ParseResultsHigherBase(text) ==
    IF text = <<>> THEN NoSearchResults
    ELSE
        LET num_sources == CountSources(text)
            s  == AnalyzeSentiment(text)
            d  == s[1]
            t  == s[2]
            p  == Max(5 * t, Min(95 * t, 50 * t + 25 * d))
            c  == Min(45 * t + 8 * num_sources * t + 25 * Abs(d), 85 * t)
        IN  [prob_yes   |-> RoundDiv(p, t),
             confidence |-> RoundDivTie(c, t, ConfTieDown(num_sources)),
             sentiment  |-> RoundDiv(100 * d, t),
             bucket     |-> IF 10 * d > 3 * t THEN "Bullish"
                            ELSE IF 10 * d < -3 * t THEN "Bearish"
                            ELSE "Mixed",
             sources    |-> num_sources]

\* _parse_results(text, question); question is not used by the code
ParseResults(text) ==
    IF text = <<>> THEN NoSearchResults
    ELSE
        LET num_sources == CountSources(text)
            s  == AnalyzeSentiment(text)
            d  == s[1]
            t  == s[2]
            \* base_prob + sentiment * 0.25, clamped to [0.05, 0.95], times 100 t
            p  == Max(5 * t, Min(95 * t, 50 * t + 25 * d))
            \* 0.35 + sources * 0.08 + |sentiment| * 0.25, capped at 0.85
            c  == Min(35 * t + 8 * num_sources * t + 25 * Abs(d), 85 * t)
        IN  [prob_yes   |-> RoundDiv(p, t),
             confidence |-> RoundDivTie(c, t, ConfTieDown(num_sources)),
             sentiment  |-> RoundDiv(100 * d, t),
             bucket     |-> IF 10 * d > 3 * t THEN "Bullish"
                            ELSE IF 10 * d < -3 * t THEN "Bearish"
                            ELSE "Mixed",
             sources    |-> num_sources]

----------------------------------------------------------------------------
(* The quoted-price variant: test_prediction.py *)

positive_words == <<"bull", "bullish", "rally", "surge", "strong", "growth",
                    " ATH", "confident">>
negative_words == <<"bear", "bearish", "crash", "dump", "fall", "weak",
                    "correction">>

\* analyze_sentiment of test_prediction.py: 0.0 when no keyword is found
TestAnalyzeSentiment(text) ==
    LET pos == CountIn(positive_words, text)
        neg == CountIn(negative_words, text)
    IN  IF pos + neg = 0 THEN <<0, 1>> ELSE <<pos - neg, pos + neg>>

\* a/b + c/d
RatAdd(x, y) == <<x[1] * y[2] + y[1] * x[2], x[2] * y[2]>>

RECURSIVE SumSentiment(_)
SumSentiment(results) ==
    IF results = <<>> THEN <<0, 1>>
    ELSE RatAdd(TestAnalyzeSentiment(Head(results)), SumSentiment(Tail(results)))

\* calculate_probability(results, current_odds): each result is the text
\* "title snippet"; only results[:3] are read and the sum is divided by 3
CalculateProbability(results, current_odds) ==
    IF results = <<>> THEN
        [direction |-> "UNKNOWN", prob_yes |-> current_odds, confidence |-> 0,
         sentiment |-> 0]
    ELSE
        LET tot == SumSentiment(SubSeq(results, 1, Min(3, Len(results))))
            n   == tot[1]
            d   == 3 * tot[2]            \* avg_sentiment = n / d
            \* current_odds + avg * 0.3, clamped, times 100 d
            p   == Max(5 * d, Min(95 * d, current_odds * d + 30 * n))
            c   == Min(50 * d + 30 * Abs(n), 90 * d)
        IN  [direction  |-> IF p > current_odds * d THEN "YES" ELSE "NO",
             prob_yes   |-> RoundDiv(p, d),
             confidence |-> RoundDiv(c, d),
             sentiment  |-> RoundDiv(100 * n, d)]

----------------------------------------------------------------------------
(* WebPredictor.predict and its cache *)

\* cache_key = f"{market_question}_{category}"
CacheKey(question, category) == question \o <<"_">> \o category

\* Faulty variant of CacheHit: the cache is never consulted
CacheHitNever(c, key) == FALSE

\* cache_key in self.cache
CacheHit(c, key) == key \in DOMAIN c

\* _search(query): the stdout of the search script when it exits with 0, ""
\* on a non-zero exit, a timeout or any other exception
SearchOutcomes == {"ok", "nonzero", "timeout", "exception"}
\* Faulty variant of Search: stdout is returned whatever the exit code
SearchKeepsStdout(outcome, stdout) == stdout

Search(outcome, stdout) == IF outcome = "ok" THEN stdout ELSE <<>>

\* Faulty variant of PredictResult: a hit is recomputed from a new search
PredictResultRecomputed(c, question, category, text) == ParseResults(text)

\* what predict(question, category) returns when _search would return text
PredictResult(c, question, category, text) ==
    LET key == CacheKey(question, category)
    IN  IF CacheHit(c, key) THEN c[key] ELSE ParseResults(text)

\* self.cache after predict(question, category)
PredictCache(c, question, category, text) ==
    LET key == CacheKey(question, category)
    IN  IF CacheHit(c, key) THEN c
        ELSE [k \in DOMAIN c \cup {key} |->
                 IF k = key THEN ParseResults(text) ELSE c[k]]

\* f with x mapped to v
Put(f, x, v) == [y \in DOMAIN f \cup {x} |-> IF y = x THEN v ELSE f[y]]

EmptyMap == [x \in {} |-> 0]

\* the predictor's state after construction: self.cache = {}
PredInit ==
    /\ cache = EmptyMap
    /\ searchCount = EmptyMap
    /\ firstResult = EmptyMap
    /\ lastCall = [called |-> FALSE]

\* One whole predict call, by any caller.  predict has no await between the
\* cache test and the cache write, so calls do not interleave inside it.
\* `outcome' and `stdout' are what the search script does at the time of the
\* call, whether the call runs it or not.
DoPredict(question, category, outcome, stdout) ==
    LET key    == CacheKey(question, category)
        pair   == <<question, category>>
        hit    == CacheHit(cache, key)
        text   == Search(outcome, stdout)
        result == PredictResult(cache, question, category, text)
        count  == IF pair \in DOMAIN searchCount THEN searchCount[pair] ELSE 0
    IN  /\ cache' = PredictCache(cache, question, category, text)
        /\ searchCount' = IF hit THEN searchCount ELSE Put(searchCount, pair, count + 1)
        /\ firstResult' = IF pair \in DOMAIN firstResult THEN firstResult
                          ELSE Put(firstResult, pair, result)
        /\ lastCall' = [called |-> TRUE, question |-> question, category |-> category,
                        wasCached |-> key \in DOMAIN cache, searched |-> ~hit,
                        outcome |-> outcome, stdout |-> stdout,
                        fresh |-> ParseResults(text), result |-> result]

----------------------------------------------------------------------------
(* PaperTrader: the per-market analysis *)

\* datetime.now(timezone.utc).year at clock value t: 2026 begins at t = 2
YearOf(t) == IF t < 2 THEN 2025 ELSE 2026

\* A date field of a record is [kind, wall, off]: kind "none" (missing, null
\* or ""), "bad" (a string fromisoformat rejects) or "iso", a timestamp whose
\* wall-clock reading is `wall' with UTC offset `off', both in half days.
NoDate  == [kind |-> "none", wall |-> 0, off |-> 0]
BadDate == [kind |-> "bad", wall |-> 0, off |-> 0]
IsoDate(wall, off) == [kind |-> "iso", wall |-> wall, off |-> off]

\* the instant an ISO-8601 timestamp denotes
Instant(date) == date.wall - date.off

\* Faulty variant of Parses: a string that does not parse is read as the epoch
ParsesUnlessEmpty(date) == date.kind # "none"

\* datetime.fromisoformat(s.replace('Z', '+00:00')) succeeds; when it raises,
\* the bare except passes
Parses(date) == date.kind = "iso"

\* datetime.fromisoformat(s.replace('Z', '+00:00')).replace(tzinfo=timezone.utc):
\* replace() keeps the wall-clock fields and drops the offset
ParseEndDate(date) == date.wall

\* re.findall(r'20\d\d', question), as the set of the years found
YearsIn(tok) ==
    CASE tok = "2024" -> {2024}
      [] tok = "2025" -> {2025}
      [] tok = "2026" -> {2026}
      [] tok = "2027" -> {2027}
      [] OTHER        -> {}
YearsInQuestion(question) == UNION {YearsIn(question[i]) : i \in 1..Len(question)}

\* _detect_category(question)
DetectCategory(question) ==
    IF \E w \in {"bitcoin", "btc", "crypto", "ethereum"} : InText(w, question)
        THEN <<"crypto">>
    ELSE IF \E w \in {"trump", "biden", "election", "senate"} : InText(w, question)
        THEN <<"politics">>
    ELSE IF \E w \in {"super bowl", "nba", "nfl", "championship"} : InText(w, question)
        THEN <<"sports">>
    ELSE <<"other">>

\* A price field is [kind, val]: "num" (a number, in hundredths), "missing"
\* (no "yes" key) or "bad" (a value that is not a number).
NumPrice(v)  == [kind |-> "num", val |-> v]
MissingPrice == [kind |-> "missing", val |-> 0]
BadPrice     == [kind |-> "bad", val |-> 0]

\* prices.get("yes", 0.5)
YesPrice(price) == IF price.kind = "missing" THEN 50 ELSE price.val

MinEdge == 10
MinConfidence == 65

\* The pairs <<our_prob, yes_price>> exactly 0.10 apart whose float difference
\* abs(our_prob - yes_price) is not below 0.10; for every other pair 0.10
\* apart the float difference is 0.09999999999999998 or the like.
FloatTenth ==
    {<<6, 16>>, <<7, 17>>, <<9, 19>>, <<10, 0>>, <<10, 20>>, <<11, 1>>,
     <<12, 22>>, <<13, 3>>, <<13, 23>>, <<14, 4>>, <<15, 25>>, <<16, 6>>,
     <<16, 26>>, <<17, 7>>, <<17, 27>>, <<18, 28>>, <<19, 9>>, <<20, 10>>,
     <<21, 31>>, <<22, 12>>, <<22, 32>>, <<23, 13>>, <<23, 33>>,
     <<24, 34>>, <<25, 15>>, <<26, 16>>, <<27, 17>>, <<28, 18>>,
     <<29, 39>>, <<30, 40>>, <<31, 21>>, <<32, 22>>, <<33, 23>>,
     <<34, 24>>, <<35, 45>>, <<36, 46>>, <<39, 29>>, <<40, 30>>,
     <<41, 51>>, <<42, 52>>, <<43, 53>>, <<44, 54>>, <<45, 35>>,
     <<45, 55>>, <<46, 36>>, <<46, 56>>, <<51, 41>>, <<52, 42>>,
     <<53, 43>>, <<54, 44>>, <<55, 45>>, <<56, 46>>, <<57, 67>>,
     <<58, 68>>, <<67, 57>>, <<68, 58>>, <<69, 79>>, <<70, 80>>,
     <<71, 81>>, <<79, 69>>, <<80, 70>>, <<81, 71>>, <<82, 92>>,
     <<83, 93>>, <<92, 82>>, <<93, 83>>}

\* edge < 0.10, on floats
EdgeBelowMin(our_prob, yes_price) ==
    LET e == Abs(our_prob - yes_price)
    IN  \/ e < MinEdge
        \/ e = MinEdge /\ <<our_prob, yes_price>> \notin FloatTenth

\* Faulty variant of GateRejects: "and" for "or"
GateRejectsBoth(our_prob, yes_price, confidence) ==
    EdgeBelowMin(our_prob, yes_price) /\ confidence < MinConfidence

\* if edge < 0.10 or confidence < 0.65: return None
GateRejects(our_prob, yes_price, confidence) ==
    EdgeBelowMin(our_prob, yes_price) \/ confidence < MinConfidence

NoRow == [market_id |-> "", question |-> <<>>, category |-> <<>>,
          our_prediction |-> 0, market_odds |-> 0, direction |-> "",
          confidence |-> 0, edge |-> 0, sentiment_score |-> 0,
          bucket |-> "", sources |-> 0, trade_size |-> 0]

\* Faulty variant of TradeSize: the base amount left out
TradeSizeNoBase(confidence) == confidence * 40

\* round(10 + (confidence * 40), 2), in cents
TradeSize(confidence) == 1000 + confidence * 40

\* Faulty variant of Direction: the comparison turned round
DirectionReversed(our_prob, yes_price) == IF our_prob < yes_price THEN "YES" ELSE "NO"

\* direction = "YES" if our_prob > yes_price else "NO"
Direction(our_prob, yes_price) == IF our_prob > yes_price THEN "YES" ELSE "NO"

\* the dict _analyze_market returns for an accepted market
MakeRow(m, category, prediction) ==
    LET our_prob  == prediction.prob_yes
        yes_price == YesPrice(m.price)
    IN  [market_id       |-> m.id,
         question        |-> m.question,
         category        |-> category,
         our_prediction  |-> our_prob,
         market_odds     |-> yes_price,
         direction       |-> Direction(our_prob, yes_price),
         confidence      |-> prediction.confidence,
         edge            |-> Abs(our_prob - yes_price),
         sentiment_score |-> prediction.sentiment,
         bucket          |-> prediction.bucket,
         sources         |-> prediction.sources,
         trade_size      |-> TradeSize(prediction.confidence)]

\* The part of _analyze_market after the filters: prediction, gate, row.
\* The result is [tag, invoked, row]: tag "TRADE" (a dict), "NONE" (None) or
\* "RAISED" (an exception leaves _analyze_market); invoked tells whether
\* predictor.predict was called.
PredictAndGate(m, c, text) ==
    LET category   == DetectCategory(m.question)
        prediction == PredictResult(c, m.question, category, text)
    IN  IF m.price.kind = "bad"
            \* abs(our_prob - yes_price) raises TypeError, outside the try
            THEN [tag |-> "RAISED", invoked |-> TRUE, row |-> NoRow]
        ELSE IF GateRejects(prediction.prob_yes, YesPrice(m.price), prediction.confidence)
            THEN [tag |-> "NONE", invoked |-> TRUE, row |-> NoRow]
        ELSE [tag |-> "TRADE", invoked |-> TRUE, row |-> MakeRow(m, category, prediction)]

\* market.get("endDate") or market.get("event_end_date", "")
EndDateV2(m) == IF m.endDate.kind # "none" THEN m.endDate ELSE m.event_end_date

\* end_dt < now
EndedBefore(end_dt, t) == end_dt < t

\* Faulty variant of TooFarOut: the horizon one day later
TooFarOutOffByOne(end_dt, t, da) == FloorDiv(end_dt - t, 2) > da + 1

\* days_until = (end_dt - now).days; days_until > days_ahead
TooFarOut(end_dt, t, da) == FloorDiv(end_dt - t, 2) > da

\* year < self.current_year for a year found in the question
HasPastYear(question, cy) == \E y \in YearsInQuestion(question) : y < cy

\* paper_trader_v2.py _analyze_market(market, days_ahead) at clock t, with
\* self.current_year = cy, self.predictor.cache = c and a search that would
\* return text
AnalyzeMarketV2(m, c, t, cy, da, text) ==
    LET end_date == EndDateV2(m)
    IN  IF end_date.kind # "none" /\ Parses(end_date)
               /\ EndedBefore(ParseEndDate(end_date), t)
            THEN [tag |-> "SKIPPED_DATE", invoked |-> FALSE, row |-> NoRow]
        ELSE IF end_date.kind # "none" /\ Parses(end_date)
               /\ TooFarOut(ParseEndDate(end_date), t, da)
            THEN [tag |-> "NONE", invoked |-> FALSE, row |-> NoRow]
        ELSE IF HasPastYear(m.question, cy)
            THEN [tag |-> "SKIPPED_YEAR", invoked |-> FALSE, row |-> NoRow]
        ELSE PredictAndGate(m, c, text)

\* paper_trader.py _analyze_market(market): the market's own endDate only, no
\* horizon and no year check
AnalyzeMarketV1(m, c, t, text) ==
    IF m.endDate.kind # "none" /\ Parses(m.endDate)
       /\ EndedBefore(ParseEndDate(m.endDate), t)
        THEN [tag |-> "NONE", invoked |-> FALSE, row |-> NoRow]
    ELSE PredictAndGate(m, c, text)

AnalyzeMarket(ver, m, c, t, cy, da, text) ==
    IF ver = "v2" THEN AnalyzeMarketV2(m, c, t, cy, da, text)
    ELSE AnalyzeMarketV1(m, c, t, text)

\* the flattening loop of scan_and_predict: a market of an event, with
\* event_end_date = event.get("endDate", "")
Flatten(eventEndDate, raw) ==
    [id |-> raw.id, question |-> raw.question, endDate |-> raw.endDate,
     event_end_date |-> eventEndDate, price |-> raw.price]

----------------------------------------------------------------------------
(* PaperTrader: the scan cycle and the ledger *)

MaxNow == 3         \* the latest clock value an analysis is drawn at
MaxLedger == 2      \* a listing is no longer than the room left for rows

DaysAheadDefault == 30

NoLast == [analysed |-> FALSE]

\* scan records one scan_and_predict call: fetch tells how get_events ended
\* ("ok", or "failed": it caught an exception and returned []), before is the
\* committed ledger when the call began, failed tells that analysing a market
\* raised, skipped and lost count the markets never analysed and the accepted
\* predictions never handed to _log_predictions because of it, and raised
\* tells that an exception left scan_and_predict.
NoScan == [fetch |-> "none", before |-> <<>>, failed |-> FALSE,
           skipped |-> 0, lost |-> 0, raised |-> FALSE]
BeginScan(fetch, before) ==
    [fetch |-> fetch, before |-> before, failed |-> FALSE,
     skipped |-> 0, lost |-> 0, raised |-> FALSE]

\* before any process runs: an empty paper_trades.sqlite
NoCycles == [ledger |-> <<>>, pending |-> <<>>, accepted |-> EmptyMap]
LedgerInit == ledger = <<>> /\ pending = <<>> /\ cycleOf = NoCycles

\* cycleOf.ledger[i] and cycleOf.pending[i] number the scan cycle whose
\* _log_predictions call inserted row i; cycleOf.accepted[c] is the number of
\* rows cycle c handed to that call.  Cycles no row is left of are forgotten.
Range(f) == {f[i] : i \in DOMAIN f}
NextCycle(cyc) ==
    LET used == Range(cyc.ledger) \cup Range(cyc.pending)
    IN  1 + CHOOSE m \in used \cup {0} : \A k \in used : k <= m
Forget(cyc) ==
    [cyc EXCEPT !.accepted = [c \in DOMAIN cyc.accepted \cap
                                      (Range(cyc.ledger) \cup Range(cyc.pending)) |->
                                 cyc.accepted[c]]]
Repeat(x, n) == [i \in 1..n |-> x]

\* PaperTrader.__init__ of trader `ver' at the current clock value
Construct(ver) ==
    /\ trader' = ver
    /\ current_year' = YearOf(now)
    /\ cache' = EmptyMap
    /\ searchCount' = EmptyMap
    /\ firstResult' = EmptyMap
    /\ lastCall' = [called |-> FALSE]

PaperIdle ==
    /\ trader = "v2"
    /\ pc = "idle"
    /\ remaining = 0
    /\ predictions = <<>>
    /\ LedgerInit
    /\ scan = NoScan
    /\ now = 0
    /\ current_year = YearOf(0)
    /\ days_ahead = DaysAheadDefault
    /\ last = NoLast

\* A new process (python3 paper_trader.py from the scheduler, or
\* paper_trader_v2.py): a fresh PaperTrader on the same database file.
StartProcess(ver) ==
    /\ pc = "idle"
    /\ Construct(ver)
    \* the old process's connection is gone: its open transaction is rolled back
    /\ pending' = <<>>
    /\ cycleOf' = Forget([cycleOf EXCEPT !.pending = <<>>])
    /\ UNCHANGED <<pc, remaining, predictions, ledger, scan, now, days_ahead, last>>

\* scan_and_predict up to the loop over the markets: get_events returned a
\* listing that flattens to n markets, or caught a failure of the request and
\* returned [].
StartScan(da, fetch, n) ==
    /\ pc = "idle"
    /\ fetch \in {"ok", "failed"}
    /\ fetch = "failed" => n = 0
    /\ Len(ledger) + Len(pending) + n <= MaxLedger
    /\ scan' = BeginScan(fetch, ledger)
    /\ pc' = "scan"
    /\ remaining' = n
    /\ predictions' = <<>>
    /\ days_ahead' = da
    /\ UNCHANGED <<trader, ledger, pending, cycleOf, now, current_year, last>>

\* One turn of "for market in markets": the next market of the listing is raw,
\* of an event whose endDate is eventEndDate; the search script, if run, ends
\* with `outcome' and prints stdout.
AnalyzeNext(eventEndDate, raw, outcome, stdout) ==
    LET m == Flatten(eventEndDate, raw)
        r == AnalyzeMarket(trader, m, cache, now, current_year, days_ahead,
                           Search(outcome, stdout))
    IN  /\ pc = "scan"
        /\ remaining > 0
        /\ IF r.invoked
              THEN DoPredict(m.question, DetectCategory(m.question), outcome, stdout)
              ELSE UNCHANGED predVars
        /\ last' = [analysed |-> TRUE, market |-> m, tag |-> r.tag,
                    invoked |-> r.invoked, at |-> now, row |-> r.row]
        /\ IF r.tag = "RAISED"
              \* the exception leaves scan_and_predict: nothing is logged
              THEN /\ pc' = "idle" /\ remaining' = 0 /\ predictions' = <<>>
                   /\ scan' = [scan EXCEPT !.failed = TRUE, !.raised = TRUE,
                                           !.skipped = remaining - 1,
                                           !.lost = Len(predictions)]
              ELSE /\ scan' = scan
                   /\ pc' = pc
                   /\ remaining' = remaining - 1
                   /\ predictions' = IF r.tag = "TRADE"
                                        THEN Append(predictions, r.row)
                                        ELSE predictions
        /\ UNCHANGED <<trader, ledger, pending, cycleOf, now, current_year, days_ahead>>

\* One INSERT of _log_predictions: the twelve values of the prediction are
\* bound, and the four columns the statement does not name, which have no
\* DEFAULT in the schema, are NULL.
NullColumns == {"resolve_time", "outcome", "resolved_value", "pnl"}
Insert(p) ==
    [col \in DOMAIN p \cup NullColumns |-> IF col \in DOMAIN p THEN p[col] ELSE "NULL"]
InsertAll(ps) == [i \in 1..Len(ps) |-> Insert(ps[i])]

\* Faulty variant of LogPredictions: the table is emptied before the inserts
LogPredictionsTruncating(failAt) ==
    LET c == NextCycle(cycleOf)
        n == Len(predictions)
    IN  /\ pc = "scan"
        /\ remaining = 0
        /\ failAt \in 0..n
        /\ IF failAt = 0
              THEN /\ ledger' = InsertAll(predictions)
                   /\ pending' = <<>>
                   /\ cycleOf' = Forget([ledger   |-> Repeat(c, n),
                                         pending  |-> <<>>,
                                         accepted |-> Put(cycleOf.accepted, c, n)])
              ELSE /\ ledger' = ledger
                   /\ pending' = pending \o InsertAll(SubSeq(predictions, 1, failAt - 1))
                   /\ cycleOf' = Forget([ledger   |-> cycleOf.ledger,
                                         pending  |-> cycleOf.pending \o Repeat(c, failAt - 1),
                                         accepted |-> Put(cycleOf.accepted, c, n)])
        /\ scan' = [scan EXCEPT !.raised = (failAt # 0)]
        /\ pc' = "idle"
        /\ predictions' = <<>>
        /\ UNCHANGED <<trader, remaining, now, current_year, days_ahead, last>>

\* _log_predictions(predictions): the inserts and the commit.  failAt = 0: every
\* INSERT succeeds and self.db.commit() commits the connection's transaction,
\* whatever it holds.  failAt = k > 0: the k-th cursor.execute raises (a value
\* sqlite3 cannot bind, a NOT NULL market_id of None, a full disk); the
\* exception leaves scan_and_predict, nothing is rolled back, and the k - 1
\* rows inserted stay in the connection's open transaction.
LogPredictions(failAt) ==
    LET c == NextCycle(cycleOf)
        n == Len(predictions)
    IN  /\ pc = "scan"
        /\ remaining = 0
        /\ failAt \in 0..n
        /\ IF failAt = 0
              THEN /\ ledger' = ledger \o pending \o InsertAll(predictions)
                   /\ pending' = <<>>
                   /\ cycleOf' = Forget([ledger   |-> cycleOf.ledger \o cycleOf.pending \o Repeat(c, n),
                                         pending  |-> <<>>,
                                         accepted |-> Put(cycleOf.accepted, c, n)])
              ELSE /\ ledger' = ledger
                   /\ pending' = pending \o InsertAll(SubSeq(predictions, 1, failAt - 1))
                   /\ cycleOf' = Forget([ledger   |-> cycleOf.ledger,
                                         pending  |-> cycleOf.pending \o Repeat(c, failAt - 1),
                                         accepted |-> Put(cycleOf.accepted, c, n)])
        /\ scan' = [scan EXCEPT !.raised = (failAt # 0)]
        /\ pc' = "idle"
        /\ predictions' = <<>>
        /\ UNCHANGED <<trader, remaining, now, current_year, days_ahead, last>>

\* scan_and_predict as a function of its listing: items[i] is the i-th market
\* of the flattened listing with what the search script does when it is run
\* for that market.  The result tells whether an exception left the loop and
\* which predictions the loop accepted.
RECURSIVE AnalyzeAll(_, _, _, _, _, _, _)
AnalyzeAll(ver, items, c, t, cy, da, acc) ==
    IF items = <<>> THEN [raised |-> FALSE, predictions |-> acc]
    ELSE LET it   == Head(items)
             text == Search(it.outcome, it.stdout)
             r    == AnalyzeMarket(ver, it.market, c, t, cy, da, text)
             c2   == IF r.invoked
                        THEN PredictCache(c, it.market.question,
                                          DetectCategory(it.market.question), text)
                        ELSE c
         IN  IF r.tag = "RAISED" THEN [raised |-> TRUE, predictions |-> <<>>]
             ELSE AnalyzeAll(ver, Tail(items), c2, t, cy, da,
                             IF r.tag = "TRADE" THEN Append(acc, r.row) ELSE acc)

\* the rows one scan_and_predict call of a new PaperTrader adds to the ledger
\* when every INSERT succeeds: none when an exception left the loop
ScanAndPredict(ver, items, t, cy, da) ==
    InsertAll(AnalyzeAll(ver, items, EmptyMap, t, cy, da, <<>>).predictions)

----------------------------------------------------------------------------
(* The stats queries: paper_trader.py get_stats and scheduler.py get_stats *)

\* A row of paper_predictions as the queries see it: outcome "NULL" while the
\* row is unresolved, else "WIN" or "LOSS"; pnl in cents, 0 standing for NULL
\* (SUM skips NULL).
StatRow(outcome, pnl) == [outcome |-> outcome, pnl |-> pnl]

CountOutcome(table, o) == Cardinality({i \in 1..Len(table) : table[i].outcome = o})
CountResolved(table) == Cardinality({i \in 1..Len(table) : table[i].outcome # "NULL"})

RECURSIVE SumPnl(_)
SumPnl(table) ==
    IF table = <<>> THEN 0
    ELSE (IF Head(table).outcome # "NULL" THEN Head(table).pnl ELSE 0) + SumPnl(Tail(table))

\* a rate in percent as the fraction <<numerator, denominator>>
Percent(n, d) == <<100 * n, d>>
ZeroRate == <<0, 1>>

\* PaperTrader.get_stats(): every aggregate is taken over the rows
\* WHERE outcome IS NOT NULL
GetStats(table) ==
    LET wins   == CountOutcome(table, "WIN")
        losses == CountOutcome(table, "LOSS")
    IN  [total_predictions |-> CountResolved(table),
         wins      |-> wins,
         losses    |-> losses,
         win_rate  |-> IF wins + losses > 0 THEN Percent(wins, wins + losses) ELSE ZeroRate,
         total_pnl |-> SumPnl(table)]

\* scheduler.py get_stats(): no WHERE clause
SchedulerGetStats(table) ==
    LET resolved == CountResolved(table)
        wins     == CountOutcome(table, "WIN")
    IN  [total    |-> Len(table),
         resolved |-> resolved,
         wins     |-> wins,
         win_rate |-> IF resolved > 0 THEN Percent(wins, Max(resolved, 1)) ELSE ZeroRate]

----------------------------------------------------------------------------
(* PolymarketBot: main.py *)

NumBotMarkets == 6      \* market ids 1..NumBotMarkets

max_open_positions == 5
max_trade_size == 50

BotMarketIds == 1..NumBotMarkets

\* what MarketAnalyzer.analyze_market may return for a market
BotPredictions ==
    {[direction |-> "YES", probability |-> 75, confidence |-> 70],
     [direction |-> "NO", probability |-> 25, confidence |-> 85]}

BotOpportunities ==
    {[market |-> [id |-> i, yes_price |-> 50], prediction |-> pr] :
        i \in BotMarketIds, pr \in {x \in BotPredictions :
                                      (x.direction = "YES") = (x.probability > 50)}}

NoDecision == [market_id |-> 0, side |-> "", size |-> 0, confidence |-> 0]

\* market.get("yes_price", 0.5), in hundredths
BotYesPrice(market) ==
    IF "yes_price" \in DOMAIN market THEN market.yes_price ELSE 50

\* Faulty variant of CalculateEdge: the confidence weight left out
CalculateEdgeUnweighted(prediction, market) ==
    Abs(prediction.probability - BotYesPrice(market)) * 100

\* _calculate_edge(prediction, market): |predicted - market| * confidence, in
\* ten-thousandths (hundredths times hundredths)
CalculateEdge(prediction, market) ==
    Abs(prediction.probability - BotYesPrice(market)) * prediction.confidence

\* self.risk_manager.calculate_position(confidence, edge, volatility), in
\* cents: base_size + confidence x confidence_scale
CalculatePosition(confidence) == 1000 + confidence * 40

\* Faulty variant of AtMaxPositions: ">" for ">="
AtMaxPositionsOffByOne(positions) == Cardinality(DOMAIN positions) > max_open_positions

\* len(self.active_positions) >= self.config["max_open_positions"]
AtMaxPositions(positions) == Cardinality(DOMAIN positions) >= max_open_positions

\* market["id"] in self.active_positions
AlreadyIn(positions, id) == id \in DOMAIN positions

\* evaluate_position(opportunity) with self.active_positions = positions;
\* approved is what risk_manager.approve_trade answers
EvaluatePositionResult(positions, opportunity, approved) ==
    LET market     == opportunity.market
        prediction == opportunity.prediction
        position_size == CalculatePosition(prediction.confidence)
    IN  IF AtMaxPositions(positions) THEN NoDecision
        ELSE IF AlreadyIn(positions, market.id) THEN NoDecision
        ELSE IF ~approved THEN NoDecision
        ELSE [market_id  |-> market.id,
              side       |-> IF prediction.direction = "UP" THEN "YES" ELSE "NO",
              size       |-> Min(position_size, max_trade_size * 100),
              confidence |-> prediction.confidence]

\* Faulty variant of ExecuteTradePositions: the result of place_order is not
\* looked at
ExecuteTradePositionsAnyResult(positions, auto, d, outcome) ==
    IF auto THEN Put(positions, d.market_id, d) ELSE positions

\* self.active_positions after execute_trade(d) when place_order ends with
\* outcome: "filled" (a truthy result), "none" (None) or "raised"
ExecuteTradePositions(positions, auto, d, outcome) ==
    IF auto /\ outcome = "filled" THEN Put(positions, d.market_id, d) ELSE positions

NoEval == [called |-> FALSE, atMax |-> FALSE, held |-> FALSE, returned |-> FALSE]

\* lastExec tells of the execute_trade call made since the last
\* evaluate_position: outcome is how place_order ended, "not called" when
\* execute_trade did not call it; added tells that the call put its market id
\* into active_positions
NoExec == [called |-> FALSE, outcome |-> "not called", added |-> FALSE]

BotIdle ==
    /\ active_positions = EmptyMap
    /\ auto_execute = FALSE
    /\ botpc = "idle"
    /\ decision = NoDecision
    /\ lastEval = NoEval
    /\ lastExec = NoExec
    /\ orders = {}

\* decision = await self.evaluate_position(opportunity)
EvaluatePosition(opportunity, approved) ==
    /\ botpc = "idle"
    /\ decision' = EvaluatePositionResult(active_positions, opportunity, approved)
    /\ botpc' = IF decision' = NoDecision THEN "idle" ELSE "decided"
    /\ lastEval' = [called   |-> TRUE,
                    atMax    |-> Cardinality(DOMAIN active_positions) >= max_open_positions,
                    held     |-> opportunity.market.id \in DOMAIN active_positions,
                    returned |-> decision' # NoDecision]
    /\ lastExec' = NoExec
    /\ UNCHANGED <<active_positions, auto_execute, orders>>

\* if decision: await self.execute_trade(decision)
ExecuteTrade(outcome) ==
    /\ botpc = "decided"
    /\ active_positions' = ExecuteTradePositions(active_positions, auto_execute,
                                                 decision, outcome)
    /\ orders' = IF auto_execute THEN orders \cup {decision.market_id} ELSE orders
    /\ lastExec' = [called  |-> TRUE,
                    outcome |-> IF auto_execute THEN outcome ELSE "not called",
                    added   |-> active_positions' # active_positions]
    /\ botpc' = "idle"
    /\ UNCHANGED <<auto_execute, decision, lastEval>>

\* monitor_positions: the positions whose market reports resolved are deleted
MonitorPositions(resolved) ==
    /\ botpc = "idle"
    /\ resolved # {}
    /\ active_positions' = [i \in DOMAIN active_positions \ resolved |-> active_positions[i]]
    /\ UNCHANGED <<auto_execute, botpc, decision, lastEval, lastExec, orders>>

----------------------------------------------------------------------------
(* PolymarketClient: utils/polymarket_api.py *)

MaxExchangeCalls == 3   \* calls on the exchange client that are counted

\* how the body of connect() ends: "ok", or the step that raised
ConnectOutcomes == {"ok", "import", "no_key", "temp_client", "derive_creds", "client"}

\* self.client after connect(): only the last step assigns it
ConnectClient(c, outcome) == IF outcome = "ok" THEN "ClobClient" ELSE c

\* what connect() returns: every exception is caught and turned into False
ConnectReturns(outcome) == outcome = "ok"

\* Faulty variant of NotConnected: the test left out
NotConnectedNever(c) == FALSE

\* if not self.client: raise RuntimeError("Not connected")
NotConnected(c) == c = "None"

NoApi == [op |-> "none", result |-> "", calls |-> 0]

ApiIdle ==
    /\ botRun = [state |-> "new", credentials |-> FALSE, outcome |-> "none",
                 initialized |-> "none", established |-> FALSE]
    /\ client = "None"
    /\ connected = FALSE
    /\ exchange = 0
    /\ lastApi = NoApi

\* await client.connect()
Connect(outcome) ==
    /\ client' = ConnectClient(client, outcome)
    /\ connected' = (connected \/ ConnectReturns(outcome))
    /\ lastApi' = [op |-> "connect",
                   result |-> IF ConnectReturns(outcome) THEN "True" ELSE "False",
                   calls |-> 0]
    /\ UNCHANGED <<botRun, exchange>>

\* One of get_order_book, get_balance, cancel_order, get_open_orders: the
\* connection test, then one call on self.client inside a try; `raises'
\* tells that the call raises, and the method then returns its default.
SimpleCall(op, raises) ==
    /\ op \in {"get_order_book", "get_balance", "cancel_order", "get_open_orders"}
    /\ exchange < MaxExchangeCalls
    /\ IF NotConnected(client)
          THEN /\ lastApi' = [op |-> op, result |-> "Not connected", calls |-> 0]
               /\ exchange' = exchange
          ELSE /\ lastApi' = [op |-> op,
                              result |-> IF raises THEN "default" ELSE "value",
                              calls |-> 1]
               /\ exchange' = exchange + 1
    /\ UNCHANGED <<botRun, client, connected>>

\* place_order(token_id, side, size, price): the connection test; then, in a
\* try, get_order_book when price is None, create_order and post_order.
\* failAt is the call on self.client that raises, 0 for none; the except
\* clause returns None.
PlaceOrder(priceGiven, failAt) ==
    LET all   == IF priceGiven THEN 2 ELSE 3
        calls == IF failAt = 0 THEN all ELSE failAt
    IN  /\ failAt \in 0..all
        /\ exchange < MaxExchangeCalls
        /\ IF NotConnected(client)
              THEN /\ lastApi' = [op |-> "place_order", result |-> "Not connected",
                                  calls |-> 0]
                   /\ exchange' = exchange
              ELSE /\ lastApi' = [op |-> "place_order",
                                  \* a get_order_book that raises returns {} and the
                                  \* order is priced at 0.5
                                  result |-> IF failAt = 0 \/ (~priceGiven /\ failAt = 1)
                                                THEN "value" ELSE "None",
                                  calls |-> IF ~priceGiven /\ failAt = 1 THEN all ELSE calls]
                   /\ exchange' = Min(MaxExchangeCalls, exchange + lastApi'.calls)
        /\ UNCHANGED <<botRun, client, connected>>

----------------------------------------------------------------------------
(* PolymarketBot.initialize and run: main.py *)

\* PolymarketClient(*args): __init__(self) takes no argument
ConstructClient(args) == IF args = <<>> THEN "PolymarketClient" ELSE "TypeError"

\* initialize(): hasCredentials tells that POLYMARKET_API_KEY and
\* POLYMARKET_API_SECRET are set, outcome is how the body of connect() would
\* end.  The result is what initialize returns ("raised" when an exception
\* leaves it) and whether a connection was established.
InitializeResult(hasCredentials, outcome) ==
    IF ~hasCredentials THEN [initialized |-> "False", established |-> FALSE]
    ELSE IF ConstructClient(<<"api_key", "api_secret">>) = "TypeError"
        \* line 88 is outside the try
        THEN [initialized |-> "raised", established |-> FALSE]
    \* connect() returns False on failure and raises nothing; the value it
    \* returns is dropped
    ELSE [initialized |-> "True", established |-> ConnectReturns(outcome)]

\* run() up to its loop: connected = await self.initialize(); if not
\* connected: return
Run(hasCredentials, outcome) ==
    LET r == InitializeResult(hasCredentials, outcome)
    IN  /\ botRun.state = "new"
        /\ botRun' = [state |-> CASE r.initialized = "True"  -> "loop"
                              [] r.initialized = "False" -> "returned"
                              [] OTHER                  -> "raised",
                   credentials |-> hasCredentials, outcome |-> outcome,
                   initialized |-> r.initialized,
                   established |-> r.established]
        /\ UNCHANGED <<client, connected, exchange, lastApi>>

----------------------------------------------------------------------------
(* Specifications *)

EngIdle == eng = [fn |-> "none"]

\* --- the scoring functions on drawn inputs ---

MaxTextLen == 4     \* tokens in a search text
MaxResults == 4     \* search results handed to calculate_probability

TextTokens == {"bullish", "BEARISH", "know", "unlikely", "market", SourceToken, TwoSources}

RECURSIVE SeqsUpTo(_, _)
SeqsUpTo(S, n) ==
    IF n = 0 THEN {<<>>}
    ELSE LET shorter == SeqsUpTo(S, n - 1)
         IN  shorter \cup {Append(x, e) : x \in {y \in shorter : Len(y) = n - 1}, e \in S}

Texts == SeqsUpTo(TextTokens, MaxTextLen)

ResultTexts == {<<"bullish">>, <<"BEARISH", "crash">>, <<"market">>, <<"Rally", "crash">>}
ResultLists == SeqsUpTo(ResultTexts, MaxResults)
QuotedPrices == {2, 35, 50, 97}

ApplyParse(text) ==
    /\ eng.fn = "none"
    /\ eng' = [fn |-> "parse", text |-> text, out |-> ParseResults(text)]
    /\ UNCHANGED <<predVars, paperVars, botVars, apiVars>>

ApplyCalculate(results, current_odds) ==
    /\ eng.fn = "none"
    /\ eng' = [fn |-> "calculate", results |-> results, odds |-> current_odds,
               out |-> CalculateProbability(results, current_odds)]
    /\ UNCHANGED <<predVars, paperVars, botVars, apiVars>>

InitEngine == EngIdle /\ ApiIdle /\ PredInit /\ PaperIdle /\ BotIdle
NextEngine ==
    \/ eng.fn = "none" /\ \E text \in Texts : ApplyParse(text)
    \/ eng.fn = "none" /\ \E results \in ResultLists, odds \in QuotedPrices :
                              ApplyCalculate(results, odds)
SpecEngine == InitEngine /\ [][NextEngine]_vars

\* --- the sentiment functions on drawn texts ---

ApplyAnalyzeSentiment(text) ==
    /\ eng.fn = "none"
    /\ eng' = [fn |-> "analyze_sentiment", text |-> text, out |-> AnalyzeSentiment(text)]
    /\ UNCHANGED <<predVars, paperVars, botVars, apiVars>>

ApplyTestAnalyzeSentiment(text) ==
    /\ eng.fn = "none"
    /\ eng' = [fn |-> "test_analyze_sentiment", text |-> text,
               out |-> TestAnalyzeSentiment(text)]
    /\ UNCHANGED <<predVars, paperVars, botVars, apiVars>>

SentimentTokens == {"bullish", "BEARISH", "Rally", "crash", "know", "unlikely", "market"}
SentimentTexts == SeqsUpTo(SentimentTokens, MaxTextLen)

InitSentiment == EngIdle /\ ApiIdle /\ PredInit /\ PaperIdle /\ BotIdle
NextSentiment ==
    \/ eng.fn = "none" /\ \E text \in SentimentTexts : ApplyAnalyzeSentiment(text)
    \/ eng.fn = "none" /\ \E text \in SentimentTexts : ApplyTestAnalyzeSentiment(text)
SpecSentiment == InitSentiment /\ [][NextSentiment]_vars

\* --- one PolymarketClient, called by anyone, and one bot run ---

SimpleOps == {"get_order_book", "get_balance", "cancel_order", "get_open_orders"}

InitClient == EngIdle /\ ApiIdle /\ PredInit /\ PaperIdle /\ BotIdle
NextClient ==
    \/ \E outcome \in ConnectOutcomes :
          Connect(outcome) /\ UNCHANGED <<eng, predVars, paperVars, botVars>>
    \/ exchange < MaxExchangeCalls /\ \E op \in SimpleOps, raises \in BOOLEAN :
          SimpleCall(op, raises) /\ UNCHANGED <<eng, predVars, paperVars, botVars>>
    \/ exchange < MaxExchangeCalls /\ \E priceGiven \in BOOLEAN, failAt \in 0..3 :
          PlaceOrder(priceGiven, failAt) /\ UNCHANGED <<eng, predVars, paperVars, botVars>>
    \/ botRun.state = "new" /\ \E hasCredentials \in BOOLEAN, outcome \in ConnectOutcomes :
          Run(hasCredentials, outcome) /\ UNCHANGED <<eng, predVars, paperVars, botVars>>
SpecClient == InitClient /\ [][NextClient]_vars

\* --- the stats queries on drawn table contents ---

MaxStatRows == 3
StatRows == {StatRow("NULL", 0), StatRow("WIN", 2000), StatRow("WIN", 500),
             StatRow("LOSS", -1000)}
StatTables == SeqsUpTo(StatRows, MaxStatRows)

ApplyGetStats(table) ==
    /\ eng.fn = "none"
    /\ eng' = [fn |-> "get_stats", table |-> table, out |-> GetStats(table)]
    /\ UNCHANGED <<predVars, paperVars, botVars, apiVars>>

ApplySchedulerGetStats(table) ==
    /\ eng.fn = "none"
    /\ eng' = [fn |-> "scheduler_get_stats", table |-> table,
               out |-> SchedulerGetStats(table)]
    /\ UNCHANGED <<predVars, paperVars, botVars, apiVars>>

InitStats == EngIdle /\ ApiIdle /\ PredInit /\ PaperIdle /\ BotIdle
NextStats ==
    \/ eng.fn = "none" /\ \E table \in StatTables : ApplyGetStats(table)
    \/ eng.fn = "none" /\ \E table \in StatTables : ApplySchedulerGetStats(table)
SpecStats == InitStats /\ [][NextStats]_vars

\* --- one WebPredictor, called by anyone ---

PredQuestions  == {<<"a">>, <<"a", "_", "b">>}
PredCategories == {<<"c">>, <<"b", "_", "c">>}
PredTexts == {<<SourceToken, "bullish">>, <<"BEARISH">>}
SearchRuns == {<<"ok", t>> : t \in PredTexts \cup {<<>>}}
                 \cup {<<o, <<>>>> : o \in SearchOutcomes \ {"ok"}}
                 \cup {<<"nonzero", <<"BEARISH">>>>}

Predict(question, category, outcome, stdout) ==
    /\ DoPredict(question, category, outcome, stdout)
    /\ UNCHANGED <<eng, paperVars, botVars, apiVars>>

InitPredictor == EngIdle /\ ApiIdle /\ PredInit /\ PaperIdle /\ BotIdle
NextPredictor ==
    \E q \in PredQuestions, c \in PredCategories, run \in SearchRuns :
        Predict(q, c, run[1], run[2])
SpecPredictor == InitPredictor /\ [][NextPredictor]_vars

\* --- one per-market analysis on drawn inputs ---

AnalyzeDaysAhead == {1, DaysAheadDefault}
Offsets == {0, 1}
\* wall-clock values around the clock and around the 30-day horizon
Walls == {w \in 0..(MaxNow + 2 * DaysAheadDefault + 3) :
             w <= MaxNow + 2 \/ w >= 2 * DaysAheadDefault - 1}
EndDates == {NoDate, BadDate} \cup {IsoDate(w, o) : w \in Walls, o \in Offsets}
EventEndDates == {NoDate, IsoDate(0, 0), IsoDate(MaxNow + 1, 1),
                  IsoDate(MaxNow + 2 * DaysAheadDefault + 3, 0)}
Questions == {<<"btc", "2026">>, <<"rain">>, <<"nba", "2025", "2027">>}
Prices == {NumPrice(50), MissingPrice, BadPrice}
BullText == <<TwoSources, TwoSources, "bullish">>
BearText == <<SourceToken, "BEARISH">>
WeakText == <<"bullish">>
AnalyzeRuns == {<<"ok", BullText>>, <<"timeout", <<>>>>}
RawMarkets ==
    {[id |-> "m1", question |-> q, endDate |-> d, price |-> p] :
        q \in Questions, d \in EndDates, p \in Prices}

InitAnalyze ==
    /\ EngIdle /\ ApiIdle /\ PredInit /\ BotIdle
    /\ trader \in {"v1", "v2"}
    /\ pc = "scan"
    /\ remaining = 1
    /\ predictions = <<>>
    /\ LedgerInit
    /\ scan = BeginScan("ok", <<>>)
    /\ now \in 0..MaxNow
    /\ current_year \in {YearOf(t) : t \in 0..now}
    /\ days_ahead \in AnalyzeDaysAhead
    /\ last = NoLast
NextAnalyze ==
    /\ pc = "scan" /\ remaining > 0
    /\ \E ev \in EventEndDates, raw \in RawMarkets, run \in AnalyzeRuns :
          AnalyzeNext(ev, raw, run[1], run[2]) /\ UNCHANGED <<eng, botVars, apiVars>>
SpecAnalyze == InitAnalyze /\ [][NextAnalyze]_vars

\* --- PaperTrader processes, scan after scan, on one database ---

PaperDaysAhead == {DaysAheadDefault}
PaperEventDates == {NoDate}
PaperMarkets ==
    {[id |-> "m1", question |-> <<"btc", "2026">>, endDate |-> NoDate, price |-> NumPrice(50)],
     [id |-> "m2", question |-> <<"btc", "2026">>, endDate |-> NoDate, price |-> NumPrice(65)],
     [id |-> "m1", question |-> <<"btc", "2026">>, endDate |-> NoDate, price |-> BadPrice]}
PaperRuns == {<<"ok", BullText>>, <<"ok", BearText>>, <<"timeout", <<>>>>}

InitPaper == EngIdle /\ ApiIdle /\ PredInit /\ PaperIdle /\ BotIdle
NextPaper ==
    \/ pc = "idle" /\ \E ver \in {"v1", "v2"} :
          StartProcess(ver) /\ UNCHANGED <<eng, botVars, apiVars>>
    \/ pc = "idle" /\ \E da \in PaperDaysAhead, n \in 0..(MaxLedger - Len(ledger)) :
          \E fetch \in {"ok", "failed"} :
              StartScan(da, fetch, n) /\ UNCHANGED <<eng, predVars, botVars, apiVars>>
    \/ pc = "scan" /\ remaining > 0
          /\ \E ev \in PaperEventDates, raw \in PaperMarkets, run \in PaperRuns :
                AnalyzeNext(ev, raw, run[1], run[2]) /\ UNCHANGED <<eng, botVars, apiVars>>
    \/ pc = "scan" /\ remaining = 0 /\ \E failAt \in 0..Len(predictions) :
          LogPredictions(failAt) /\ UNCHANGED <<eng, predVars, botVars, apiVars>>
SpecPaper == InitPaper /\ [][NextPaper]_vars

\* --- the live bot: evaluate, execute, monitor ---

InitBot ==
    /\ EngIdle /\ ApiIdle /\ PredInit /\ PaperIdle
    /\ active_positions = EmptyMap
    /\ auto_execute \in BOOLEAN
    /\ botpc = "idle"
    /\ decision = NoDecision
    /\ lastEval = NoEval
    /\ lastExec = NoExec
    /\ orders = {}
NextBot ==
    \/ botpc = "idle" /\ \E opp \in BotOpportunities, approved \in BOOLEAN :
          EvaluatePosition(opp, approved) /\ UNCHANGED <<eng, predVars, paperVars, apiVars>>
    \/ botpc = "decided" /\ \E outcome \in {"filled", "none", "raised"} :
          ExecuteTrade(outcome) /\ UNCHANGED <<eng, predVars, paperVars, apiVars>>
    \/ botpc = "idle" /\ \E resolved \in SUBSET DOMAIN active_positions :
          MonitorPositions(resolved) /\ UNCHANGED <<eng, predVars, paperVars, apiVars>>
SpecBot == InitBot /\ [][NextBot]_vars

\* --- sizing: one scan cycle of paper_trader_v2 beside the bot's gate ---

SizingMarkets ==
    {[id |-> "m1", question |-> <<"btc", "2026">>, endDate |-> NoDate, price |-> NumPrice(50)],
     [id |-> "m2", question |-> <<"rain">>, endDate |-> NoDate, price |-> NumPrice(35)]}
SizingRuns == {<<"ok", BullText>>, <<"ok", BearText>>}
SizingOpportunities == {o \in BotOpportunities : o.market.id <= 2}

InitSizing ==
    /\ EngIdle /\ ApiIdle /\ PredInit
    /\ trader = "v2"
    /\ pc = "scan"
    /\ remaining = MaxLedger
    /\ predictions = <<>>
    /\ LedgerInit
    /\ scan = BeginScan("ok", <<>>)
    /\ now = 0
    /\ current_year = YearOf(0)
    /\ days_ahead = DaysAheadDefault
    /\ last = NoLast
    /\ active_positions = EmptyMap
    /\ auto_execute \in BOOLEAN
    /\ botpc = "idle"
    /\ decision = NoDecision
    /\ lastEval = NoEval
    /\ lastExec = NoExec
    /\ orders = {}
NextSizing ==
    \/ pc = "scan" /\ remaining > 0
          /\ \E raw \in SizingMarkets, run \in SizingRuns :
                AnalyzeNext(NoDate, raw, run[1], run[2]) /\ UNCHANGED <<eng, botVars, apiVars>>
    \/ LogPredictions(0) /\ UNCHANGED <<eng, predVars, botVars, apiVars>>
    \/ botpc = "idle" /\ \E opp \in SizingOpportunities, approved \in BOOLEAN :
          EvaluatePosition(opp, approved) /\ UNCHANGED <<eng, predVars, paperVars, apiVars>>
    \/ botpc = "decided" /\ \E outcome \in {"filled", "none", "raised"} :
          ExecuteTrade(outcome) /\ UNCHANGED <<eng, predVars, paperVars, apiVars>>
SpecSizing == InitSizing /\ [][NextSizing]_vars

\* --- whole scan cycles on drawn listings ---

MaxListing == 3     \* markets in a listing

\* the search returns the same text for the same question throughout a cycle
CycleItems ==
    {[market |-> Flatten(NoDate, [id |-> "m1", question |-> <<"btc", "2026">>,
                                  endDate |-> NoDate, price |-> NumPrice(50)]),
      outcome |-> "ok", stdout |-> BullText],
     [market |-> Flatten(NoDate, [id |-> "m2", question |-> <<"btc", "2026">>,
                                  endDate |-> NoDate, price |-> NumPrice(65)]),
      outcome |-> "ok", stdout |-> BullText],
     [market |-> Flatten(NoDate, [id |-> "m3", question |-> <<"rain">>,
                                  endDate |-> NoDate, price |-> MissingPrice]),
      outcome |-> "ok", stdout |-> BearText],
     [market |-> Flatten(NoDate, [id |-> "m4", question |-> <<"trump">>,
                                  endDate |-> NoDate, price |-> BadPrice]),
      outcome |-> "ok", stdout |-> BullText],
     [market |-> Flatten(IsoDate(0, 0), [id |-> "m5", question |-> <<"nba">>,
                                         endDate |-> NoDate, price |-> NumPrice(50)]),
      outcome |-> "ok", stdout |-> BullText],
     [market |-> Flatten(NoDate, [id |-> "m6", question |-> <<"market">>,
                                  endDate |-> NoDate, price |-> NumPrice(50)]),
      outcome |-> "timeout", stdout |-> <<>>]}

\* listings of markets with different ids
Listings ==
    {l \in SeqsUpTo(CycleItems, MaxListing) :
        \A i, j \in 1..Len(l) : i # j => l[i].market.id # l[j].market.id}

ApplyScanAndPredict(items) ==
    /\ eng.fn = "none"
    /\ eng' = [fn |-> "scan_and_predict", items |-> items,
               out |-> ScanAndPredict(trader, items, now, current_year, days_ahead)]
    /\ UNCHANGED <<predVars, paperVars, botVars, apiVars>>

InitListing ==
    /\ EngIdle /\ ApiIdle /\ PredInit /\ BotIdle
    /\ trader \in {"v1", "v2"}
    /\ pc = "idle"
    /\ remaining = 0
    /\ predictions = <<>>
    /\ LedgerInit
    /\ scan = NoScan
    /\ now = 1
    /\ current_year = YearOf(1)
    /\ days_ahead = DaysAheadDefault
    /\ last = NoLast
NextListing ==
    eng.fn = "none" /\ \E items \in Listings : ApplyScanAndPredict(items)
SpecListing == InitListing /\ [][NextListing]_vars

\* --- the edge: one scan cycle of paper_trader_v2 beside _calculate_edge ---

EdgePredictions ==
    {[direction |-> "YES", probability |-> p, confidence |-> c] :
        p \in {5, 50, 95}, c \in {0, 70, 100}}
EdgeBotMarkets == {[id |-> 1], [id |-> 1, yes_price |-> 0], [id |-> 1, yes_price |-> 50],
                   [id |-> 1, yes_price |-> 100]}
EdgeMarkets ==
    {[id |-> "m1", question |-> <<"btc", "2026">>, endDate |-> NoDate, price |-> NumPrice(50)],
     [id |-> "m2", question |-> <<"rain">>, endDate |-> NoDate, price |-> MissingPrice],
     [id |-> "m3", question |-> <<"trump">>, endDate |-> NoDate, price |-> NumPrice(100)]}

ApplyCalculateEdge(prediction, market) ==
    /\ eng.fn = "none"
    /\ eng' = [fn |-> "calculate_edge", prediction |-> prediction, market |-> market,
               out |-> CalculateEdge(prediction, market)]
    /\ UNCHANGED <<predVars, paperVars, botVars, apiVars>>

InitEdge ==
    /\ EngIdle /\ ApiIdle /\ PredInit /\ BotIdle
    /\ trader \in {"v1", "v2"}
    /\ pc = "scan"
    /\ remaining = MaxLedger
    /\ predictions = <<>>
    /\ LedgerInit
    /\ scan = BeginScan("ok", <<>>)
    /\ now = 0
    /\ current_year = YearOf(0)
    /\ days_ahead = DaysAheadDefault
    /\ last = NoLast
NextEdge ==
    \/ pc = "scan" /\ remaining > 0
          /\ \E raw \in EdgeMarkets, run \in SizingRuns :
                AnalyzeNext(NoDate, raw, run[1], run[2]) /\ UNCHANGED <<eng, botVars, apiVars>>
    \/ LogPredictions(0) /\ UNCHANGED <<eng, predVars, botVars, apiVars>>
    \/ eng.fn = "none" /\ \E prediction \in EdgePredictions, market \in EdgeBotMarkets :
          ApplyCalculateEdge(prediction, market)
SpecEdge == InitEdge /\ [][NextEdge]_vars

\* --- scan cycles on search texts with and without source lines ---

SourceTexts ==
    {<<"bullish">>, <<"crash">>, <<"bullish", "crash">>, <<"market">>,
     <<SourceToken>>, <<SourceToken, "bullish">>, <<SourceToken, "crash">>,
     <<TwoSources, "bullish">>}
SourceRuns == {<<"ok", t>> : t \in SourceTexts \cup {<<>>}}

InitSources ==
    /\ EngIdle /\ ApiIdle /\ PredInit /\ BotIdle
    /\ trader \in {"v1", "v2"}
    /\ pc = "scan"
    /\ remaining = MaxLedger
    /\ predictions = <<>>
    /\ LedgerInit
    /\ scan = BeginScan("ok", <<>>)
    /\ now = 0
    /\ current_year = YearOf(0)
    /\ days_ahead = DaysAheadDefault
    /\ last = NoLast
NextSources ==
    \/ pc = "scan" /\ remaining > 0
          /\ \E raw \in EdgeMarkets, run \in SourceRuns :
                AnalyzeNext(NoDate, raw, run[1], run[2]) /\ UNCHANGED <<eng, botVars, apiVars>>
    \/ LogPredictions(0) /\ UNCHANGED <<eng, predVars, botVars, apiVars>>
SpecSources == InitSources /\ [][NextSources]_vars

\* --- evaluate_position on the analyzer's predictions ---

\* MarketAnalyzer.analyze_market: "YES" if prediction["prob_yes"] > 0.5 else "NO"
AnalyzerDirection(prob_yes) == IF prob_yes > 50 THEN "YES" ELSE "NO"

AnalyzerPredictions ==
    {[direction |-> AnalyzerDirection(p), probability |-> p, confidence |-> c] :
        p \in {25, 50, 75}, c \in {70, 85}}
EvalOpportunities ==
    {[market |-> [id |-> i, yes_price |-> 50], prediction |-> pr] :
        i \in {1, 2, 3}, pr \in AnalyzerPredictions}
EvalPositions ==
    {EmptyMap,
     Put(EmptyMap, 1, [market_id |-> 1, side |-> "NO", size |-> 3800, confidence |-> 70])}

ApplyEvaluatePosition(opportunity, approved) ==
    /\ eng.fn = "none"
    /\ eng' = [fn |-> "evaluate_position", opportunity |-> opportunity,
               approved |-> approved,
               out |-> EvaluatePositionResult(active_positions, opportunity, approved)]
    /\ UNCHANGED <<predVars, paperVars, botVars, apiVars>>

InitEvaluate ==
    /\ EngIdle /\ ApiIdle /\ PredInit /\ PaperIdle
    /\ active_positions \in EvalPositions
    /\ auto_execute \in BOOLEAN
    /\ botpc = "idle"
    /\ decision = NoDecision
    /\ lastEval = NoEval
    /\ lastExec = NoExec
    /\ orders = DOMAIN active_positions
NextEvaluate ==
    eng.fn = "none" /\ \E opportunity \in EvalOpportunities, approved \in BOOLEAN :
        ApplyEvaluatePosition(opportunity, approved)
SpecEvaluate == InitEvaluate /\ [][NextEvaluate]_vars

----------------------------------------------------------------------------
(* Claims *)

Rows(rs) == {rs[i] : i \in 1..Len(rs)}

\* C1: every row of the ledger, and every prediction a cycle has accepted, has
\* edge >= 0.10 and confidence >= 0.65; a market analysed below either
\* threshold yields no row.
C1_RowsMeetThresholds ==
    /\ \A r \in Rows(ledger) \cup Rows(predictions) : r.edge >= 10 /\ r.confidence >= 65
    /\ (last.analysed /\ last.tag = "TRADE") =>
          last.row.edge >= 10 /\ last.row.confidence >= 65

\* C1 witness: a row has been committed and the market analysed last reached
\* the gate and was turned away.
C1_Witness ==
    /\ Len(ledger) > 0
    /\ last.analysed /\ last.invoked /\ last.tag = "NONE"

\* C2 (as claimed): the ledger holds at most one unresolved row per market_id
\* (no operation of the code resolves a row, so every row is unresolved), and
\* the bot holds no decision for a market id that is in active_positions.
C2_NoDuplicateOpenPosition ==
    /\ \A i, j \in 1..Len(ledger) :
          i # j => ledger[i].market_id # ledger[j].market_id
    /\ botpc = "decided" => decision.market_id \notin DOMAIN active_positions

\* C3: the number of open positions never exceeds max_open_positions, and an
\* evaluate_position call made with the count at the maximum returns nothing.
C3_PositionLimit ==
    /\ Cardinality(DOMAIN active_positions) <= 5
    /\ (lastEval.called /\ lastEval.atMax) => ~lastEval.returned
    /\ botpc = "decided" => Cardinality(DOMAIN active_positions) < 5

\* C3 witness: five positions are open and evaluate_position was called then.
C3_Witness ==
    /\ Cardinality(DOMAIN active_positions) = 5
    /\ lastEval.called /\ lastEval.atMax

\* the resolution date of the analysed market: its own, else its event's
ResolutionDate(m) == IF m.endDate.kind # "none" THEN m.endDate ELSE m.event_end_date

\* C4 (as claimed): a market whose resolution date parses and denotes an
\* instant strictly before the current UTC instant is tagged SKIPPED_DATE by
\* paper_trader_v2 and the predictor is not invoked.
C4_PastMarketsSkipped ==
    (/\ last.analysed /\ trader = "v2"
     /\ ResolutionDate(last.market).kind = "iso"
     /\ Instant(ResolutionDate(last.market)) < last.at)
    => (last.tag = "SKIPPED_DATE" /\ ~last.invoked)

\* C5 (as claimed): a market whose question holds a 20xx year below the
\* current UTC year is tagged SKIPPED_YEAR and the predictor is not invoked.
C5_PastYearSkipped ==
    (/\ last.analysed
     /\ \E y \in YearsInQuestion(last.market.question) : y < YearOf(last.at))
    => (last.tag = "SKIPPED_YEAR" /\ ~last.invoked)

\* C6 (as claimed): a market whose resolution date parses and lies more than
\* days_ahead days after the current UTC instant is rejected with no tag and
\* without the predictor.
C6_BeyondHorizonRejected ==
    (/\ last.analysed /\ trader = "v2"
     /\ ResolutionDate(last.market).kind = "iso"
     /\ Instant(ResolutionDate(last.market)) - last.at > 2 * days_ahead)
    => (last.tag = "NONE" /\ ~last.invoked)

\* C6 (amended): a market whose resolution date parses and whose wall-clock
\* reading, taken as UTC, is days_ahead + 1 whole days or more after now is
\* rejected with no tag and without the predictor.
C6_WholeDaysBeyondHorizonRejected ==
    (/\ last.analysed /\ trader = "v2"
     /\ ResolutionDate(last.market).kind = "iso"
     /\ ResolutionDate(last.market).wall - last.at >= 2 * (days_ahead + 1))
    => (last.tag = "NONE" /\ ~last.invoked)

\* C6 witness: such a market has been analysed under the default horizon.
C6_Witness ==
    /\ last.analysed /\ trader = "v2" /\ days_ahead = 30
    /\ ResolutionDate(last.market).kind = "iso"
    /\ ResolutionDate(last.market).wall - last.at = 2 * (days_ahead + 1)
    /\ last.tag = "NONE"

\* C7: a market whose resolution date is missing or does not parse is not
\* turned away by the date checks and does not make the date handling raise:
\* paper_trader_v2 tags it SKIPPED_YEAR when its year check finds a past year
\* and otherwise invokes the predictor.
C7_UnknownDatePassesThrough ==
    (/\ last.analysed /\ trader = "v2"
     /\ ResolutionDate(last.market).kind \in {"none", "bad"})
    => IF \E y \in YearsInQuestion(last.market.question) : y < current_year
          THEN last.tag = "SKIPPED_YEAR" /\ ~last.invoked
          ELSE last.invoked /\ last.tag \in {"TRADE", "NONE", "RAISED"}

\* C7 witness: a market with an unparseable date went on to the predictor
\* after the clock's start.
C7_Witness ==
    /\ last.analysed /\ trader = "v2"
    /\ ResolutionDate(last.market).kind = "bad"
    /\ last.at > 0
    /\ last.invoked

\* C8: the search is run at most once per (question, category), and a call on
\* a key that is in the cache runs no search and returns the cached value.
C8_AtMostOneSearchPerKey ==
    /\ \A pair \in DOMAIN searchCount : searchCount[pair] <= 1
    /\ (lastCall.called /\ lastCall.wasCached) =>
          /\ ~lastCall.searched
          /\ lastCall.result = cache[CacheKey(lastCall.question, lastCall.category)]

\* C8 witness: a call on a pair that had been searched for found its key in
\* the cache.
C8_Witness ==
    /\ lastCall.called /\ lastCall.wasCached
    /\ <<lastCall.question, lastCall.category>> \in DOMAIN searchCount

\* C9: every predict call on a (question, category) returns what the first
\* call on it returned.
C9_RepeatedCallsAgree ==
    lastCall.called =>
        lastCall.result = firstResult[<<lastCall.question, lastCall.category>>]

\* C9 witness: a repeated call, made when the search would have given a
\* different prediction, after a call on another pair.
C9_Witness ==
    /\ lastCall.called /\ lastCall.wasCached
    /\ <<lastCall.question, lastCall.category>> \in DOMAIN searchCount
    /\ lastCall.fresh # lastCall.result
    /\ Cardinality(DOMAIN firstResult) > 1

\* C10 (as claimed): every prediction returned, by _parse_results or by the
\* quoted-price variant calculate_probability, has 0.05 <= prob_yes <= 0.95
\* and 0 <= confidence <= 0.85.
C10_PredictionsInRange ==
    eng.fn # "none" =>
        /\ 5 <= eng.out.prob_yes /\ eng.out.prob_yes <= 95
        /\ 0 <= eng.out.confidence /\ eng.out.confidence <= 85

\* C11: a predict call whose search fails (non-zero exit, timeout, exception)
\* or prints nothing returns the neutral prediction: prob_yes 0.5 and
\* confidence 0.
C11_FailedSearchIsNeutral ==
    (/\ lastCall.called /\ lastCall.searched
     /\ (lastCall.outcome # "ok" \/ lastCall.stdout = <<>>))
    => (lastCall.result.prob_yes = 50 /\ lastCall.result.confidence = 0)

\* C11 witness: the search script exited non-zero after printing text, and
\* the call returned the neutral prediction.
C11_Witness ==
    /\ lastCall.called /\ lastCall.searched
    /\ lastCall.outcome = "nonzero" /\ lastCall.stdout # <<>>
    /\ lastCall.result = NoSearchResults

\* C12: every row of the ledger, and every prediction a cycle has accepted,
\* has direction YES when its our_prediction is strictly above its
\* market_odds and direction NO otherwise.
C12_DirectionFollowsPrices ==
    \A r \in Rows(ledger) \cup Rows(predictions) :
        /\ r.direction \in {"YES", "NO"}
        /\ (r.direction = "YES") = (r.our_prediction > r.market_odds)

\* C12 witness: the ledger holds a YES row and a NO row.
C12_Witness ==
    /\ \E r \in Rows(ledger) : r.direction = "YES" /\ r.our_prediction > r.market_odds
    /\ \E r \in Rows(ledger) : r.direction = "NO" /\ r.our_prediction < r.market_odds

\* min(max_trade_size, base_size + confidence x confidence_scale) with base
\* 10, scale 40 and maximum 50, in cents for a confidence in hundredths
ClaimedSize(confidence) == Min(5000, 1000 + confidence * 40)

\* sizes and confidences of the accepted opportunities of a state: the
\* paper trader's rows and the bot's decision
AcceptedSizes ==
    {<<r.confidence, r.trade_size>> : r \in Rows(ledger) \cup Rows(predictions)}
    \cup (IF botpc = "decided" THEN {<<decision.confidence, decision.size>>} ELSE {})

\* C13: every accepted opportunity has size min(50, 10 + confidence x 40);
\* the size is at least 10, at most 50, and a higher confidence never has a
\* smaller size.
C13_SizeFormula ==
    /\ \A a \in AcceptedSizes :
          a[2] = ClaimedSize(a[1]) /\ a[2] >= 1000 /\ a[2] <= 5000
    /\ \A a, b \in AcceptedSizes : a[1] <= b[1] => a[2] <= b[2]

\* C13 witness: the ledger holds rows of two confidences and the bot holds a
\* decision at confidence 0.70, of size 38.
C13_Witness ==
    /\ \E r1, r2 \in Rows(ledger) : r1.confidence < r2.confidence
    /\ botpc = "decided" /\ decision.confidence = 70 /\ decision.size = 3800

\* C14 (as claimed): the committed ledger holds, of every scan cycle, either
\* all the rows the cycle accepted or none of them.
C14_LedgerWriteAtomic ==
    \A c \in DOMAIN cycleOf.accepted :
        Cardinality({i \in 1..Len(ledger) : cycleOf.ledger[i] = c}) \in {0, cycleOf.accepted[c]}

\* two rates given as fractions are the same number
SameRate(x, y) == x[1] * y[2] = y[1] * x[2]

\* the win rate of a table as claimed: wins / (wins + losses), 0 when there
\* are none, in percent
ClaimedWinRate(table) ==
    LET wins   == CountOutcome(table, "WIN")
        losses == CountOutcome(table, "LOSS")
    IN  IF wins + losses > 0 THEN <<100 * wins, wins + losses>> ELSE <<0, 1>>

\* C16 (as claimed): the stats report total = the number of all rows, wins and
\* losses = the resolved rows with outcome WIN and LOSS, win rate = wins /
\* (wins + losses) or 0, and total pnl = the sum of pnl over resolved rows.
C16_StatsMatchLedger ==
    /\ eng.fn = "get_stats" =>
          /\ eng.out.total_predictions = Len(eng.table)
          /\ eng.out.wins = CountOutcome(eng.table, "WIN")
          /\ eng.out.losses = CountOutcome(eng.table, "LOSS")
          /\ SameRate(eng.out.win_rate, ClaimedWinRate(eng.table))
          /\ eng.out.total_pnl = SumPnl(eng.table)
    /\ eng.fn = "scheduler_get_stats" =>
          /\ eng.out.total = Len(eng.table)
          /\ eng.out.wins = CountOutcome(eng.table, "WIN")
          /\ SameRate(eng.out.win_rate, ClaimedWinRate(eng.table))

\* C17 (as claimed): a scan cycle whose listing fetch failed leaves the
\* committed ledger as it was when the cycle began, and no exception leaves
\* scan_and_predict.
C17_FailedFetchWritesNothing ==
    scan.fetch = "failed" => (ledger = scan.before /\ ~scan.raised)

\* C18 (as claimed): when analysing one market fails, only that market is
\* dropped: no market of the cycle goes unanalysed and no accepted prediction
\* goes unrecorded because of it.
C18_FailureDropsOnlyThatMarket ==
    scan.failed => (scan.skipped = 0 /\ scan.lost = 0)

\* the market with its event's date as its own endDate
WithOwnDate(m) == [m EXCEPT !.endDate = m.event_end_date]

\* what the date filters of the running trader do to market m at the last
\* analysis: whether they let it through to the predictor, and the tag if not
FilterOutcome(m) ==
    LET r == AnalyzeMarket(trader, m, EmptyMap, last.at, current_year,
                           days_ahead, <<>>)
    IN  [invoked |-> r.invoked, tag |-> IF r.invoked THEN "PASSED" ELSE r.tag]

\* C19 (as claimed): a market whose own resolution date is absent is filtered
\* with its event's resolution date, exactly as if that date were its own:
\* it is turned away, with the same tag, whenever the same market carrying
\* the date as its endDate is.
C19_EventDateInherited ==
    (/\ last.analysed
     /\ last.market.endDate.kind = "none"
     /\ last.market.event_end_date.kind = "iso")
    => LET own == FilterOutcome(WithOwnDate(last.market))
       IN  /\ last.invoked = own.invoked
           /\ ~own.invoked => last.tag = own.tag

\* C20 (as claimed): a market whose YES price is missing or is not a number
\* is analysed with the price taken as 0, and its analysis does not raise.
C20_BadPriceDefaultsToZero ==
    (/\ last.analysed /\ last.invoked
     /\ last.market.price.kind \in {"missing", "bad"})
    => /\ last.tag # "RAISED"
       /\ last.tag = "TRADE" => last.row.market_odds = 0

RowsOf(rs, id) == SelectSeq(rs, LAMBDA r : r.market_id = id)

\* C22 (as claimed): within one scan cycle the paper trade a market produces
\* does not depend on the other markets of the cycle: the cycle records for
\* each of its markets exactly what a cycle on that market alone records.
C22_OutcomeIndependentOfOtherMarkets ==
    eng.fn = "scan_and_predict" =>
        \A i \in 1..Len(eng.items) :
            RowsOf(eng.out, eng.items[i].market.id) =
                ScanAndPredict(trader, <<eng.items[i]>>, now, current_year, days_ahead)

\* the keyword lists the applied sentiment function reads
BullishOf(fn) == IF fn = "analyze_sentiment" THEN bullish ELSE positive_words
BearishOf(fn) == IF fn = "analyze_sentiment" THEN bearish ELSE negative_words

\* the keywords found in a text, and how often: one occurrence for every
\* token that contains the keyword
Occurrences(w, text) ==
    Cardinality({i \in 1..Len(text) : w \in KeywordsIn(Lower(text[i]))})
RECURSIVE SumOccurrences(_, _)
SumOccurrences(ws, text) ==
    IF ws = {} THEN 0
    ELSE LET w == CHOOSE x \in ws : TRUE
         IN  Occurrences(w, text) + SumOccurrences(ws \ {w}, text)
KeywordSet(words) == {words[i] : i \in 1..Len(words)}

\* the keywords that occur in a text
Present(text) == UNION {KeywordsIn(Lower(text[i])) : i \in 1..Len(text)}

\* the number of entries of a keyword list that occur in a text
EntriesPresent(words, text) ==
    Cardinality({i \in 1..Len(words) : words[i] \in Present(text)})

\* C23 (as claimed): the sentiment of a text is (bullish - bearish) /
\* max(1, bullish + bearish) with bullish and bearish the numbers of
\* occurrences in the text of the keywords of the two sets; it lies in
\* [-1, 1] and is 0 for the empty text.
C23_SentimentCountsOccurrences ==
    eng.fn \in {"analyze_sentiment", "test_analyze_sentiment"} =>
        LET pos == SumOccurrences(KeywordSet(BullishOf(eng.fn)), eng.text)
            neg == SumOccurrences(KeywordSet(BearishOf(eng.fn)), eng.text)
        IN  /\ SameRate(eng.out, <<pos - neg, Max(1, pos + neg)>>)
            /\ -eng.out[2] <= eng.out[1] /\ eng.out[1] <= eng.out[2]
            /\ eng.text = <<>> => eng.out[1] = 0

\* C23 (amended): the sentiment of a text is (bullish - bearish) /
\* max(1, bullish + bearish) with bullish and bearish the numbers of entries
\* of the two keyword lists that occur in the lower-cased text, each entry
\* counted once however often it occurs; it lies in [-1, 1] and is 0 for the
\* empty text.
C23_SentimentCountsEntriesPresent ==
    eng.fn \in {"analyze_sentiment", "test_analyze_sentiment"} =>
        LET pos == EntriesPresent(BullishOf(eng.fn), eng.text)
            neg == EntriesPresent(BearishOf(eng.fn), eng.text)
        IN  /\ eng.out[2] > 0
            /\ SameRate(eng.out, <<pos - neg, Max(1, pos + neg)>>)
            /\ -eng.out[2] <= eng.out[1] /\ eng.out[1] <= eng.out[2]
            /\ eng.text = <<>> => eng.out[1] = 0

\* C23 witness: _analyze_sentiment has scored a text that repeats a bullish
\* token beside a bearish one, with a sentiment strictly between -1 and 0.
C23_Witness ==
    /\ eng.fn = "analyze_sentiment"
    /\ Occurrences("bullish", eng.text) >= 2
    /\ Occurrences("bearish", eng.text) >= 1
    /\ eng.out[1] < 0 /\ -eng.out[2] < eng.out[1]

IsPrefix(s, t) == Len(s) <= Len(t) /\ SubSeq(t, 1, Len(s)) = s

\* C25: a scan cycle only appends to the ledger: the rows committed when the
\* cycle began are still there, unchanged and in place, and every row added
\* since has resolve_time, outcome, resolved_value and pnl NULL.
C25_CycleOnlyAppends ==
    scan.fetch # "none" =>
        /\ IsPrefix(scan.before, ledger)
        /\ \A i \in (Len(scan.before) + 1)..Len(ledger) :
              \A col \in NullColumns : ledger[i][col] = "NULL"

\* C25 witness: a cycle that began on a ledger with a row in it has committed
\* a further row.
C25_Witness ==
    /\ scan.fetch = "ok" /\ pc = "idle"
    /\ Len(scan.before) > 0
    /\ Len(ledger) > Len(scan.before)

\* C26: while auto_execute is false, execute_trade hands nothing to
\* place_order and active_positions stays as constructed; with auto_execute
\* true, an execute_trade call adds its market id to active_positions only
\* when place_order returned a result, and every open position is of a market
\* that was handed to place_order.
C26_ManualModePlacesNoOrder ==
    /\ ~auto_execute =>
          /\ orders = {} /\ active_positions = EmptyMap
          /\ lastExec.called => (lastExec.outcome = "not called" /\ ~lastExec.added)
    /\ lastExec.added => (auto_execute /\ lastExec.outcome = "filled")
    /\ DOMAIN active_positions \subseteq orders

\* C26 witness: execute_trade has run on a decision with auto_execute false.
C26_Witness ==
    /\ ~auto_execute
    /\ lastExec.called /\ decision # NoDecision /\ botpc = "idle"

\* C27: initialize returns True only when the connection was established, and
\* whenever the credentials are set but connect fails (missing private key,
\* SDK error) initialize returns False and run returns before its loop.
C27_InitializeTrueOnlyWhenConnected ==
    botRun.state # "new" =>
        /\ botRun.initialized = "True" => botRun.established
        /\ (botRun.credentials /\ ~ConnectReturns(botRun.outcome)) =>
              (botRun.initialized = "False" /\ botRun.state = "returned")

\* C30: while no connect has succeeded, get_order_book, get_balance,
\* place_order, cancel_order and get_open_orders raise 'Not connected' and
\* make no call on the exchange client, and the client stays disconnected
\* through every failed connect.
C30_NotConnectedUntilConnectSucceeds ==
    ~connected =>
        /\ client = "None"
        /\ exchange = 0
        /\ lastApi.op \in SimpleOps \cup {"place_order"} =>
              (lastApi.result = "Not connected" /\ lastApi.calls = 0)
        /\ lastApi.op = "connect" => lastApi.result = "False"

C30_Witness ==
    /\ ~connected
    /\ lastApi.op = "place_order"
    /\ lastApi.result = "Not connected"

\* C28: no paper trade comes from a prediction with zero sources: every row
\* of the ledger, and every prediction a cycle has accepted, was produced
\* from a search text with at least one source entry, and a text without a
\* source entry gives a confidence below the 0.65 gate.
C28_NoTradeFromZeroSources ==
    /\ \A r \in Rows(ledger) \cup Rows(predictions) : r.sources >= 1
    /\ (lastCall.called /\ lastCall.fresh.sources = 0) =>
          lastCall.fresh.confidence < MinConfidence

\* C28 witness: a row has been committed, and the market analysed last had a
\* search text without a source entry and of one-sided sentiment, with the
\* edge the gate asks for, and was turned away.
C28_Witness ==
    /\ Len(ledger) > 0
    /\ last.analysed /\ last.invoked /\ last.tag = "NONE"
    /\ lastCall.searched /\ lastCall.stdout # <<>>
    /\ lastCall.result.sources = 0
    /\ Abs(lastCall.result.sentiment) = 100
    /\ ~EdgeBelowMin(lastCall.result.prob_yes, YesPrice(last.market.price))

\* C29: the decision evaluate_position returns has side YES exactly when the
\* analyzer's prediction for the market has direction YES, which is when its
\* probability of YES is above 0.5, and side NO otherwise.
C29_SideFollowsDirection ==
    (eng.fn = "evaluate_position" /\ eng.out # NoDecision) =>
        LET prediction == eng.opportunity.prediction
        IN  /\ eng.out.side \in {"YES", "NO"}
            /\ (prediction.direction = "YES") = (prediction.probability > 50)
            /\ (eng.out.side = "YES") = (prediction.direction = "YES")

====
